---- MODULE Spec2Model ----
(***************************************************************************)
(* Model of precipitation_analyzer.py: process_excel_files reads every     *)
(* .xlsx/.xls/.csv entry of an input folder, appends one row of per-year   *)
(* column averages to each table, writes the augmented table, and finally  *)
(* writes one summary of all (file, year, average, leap) records.          *)
(*                                                                         *)
(* Text is a sequence of one-character strings, so that str().lower(),     *)
(* int() and pd.to_numeric() are computed on the characters.  A number is  *)
(* an exact fraction [num, den] in lowest terms with den > 0.              *)
(***************************************************************************)
EXTENDS Integers, Sequences, FiniteSets, TLC

----------------------------------------------------------------------------
(* Bounds of the explored input space *)

\* most columns of a table read from a file
MaxCols == 3
\* most data cells (columns * rows) of a table read from a file
MaxCells == 4
\* most entries os.listdir returns
MaxFiles == 2

----------------------------------------------------------------------------
(* Values *)

Frac(n, d) == [num |-> n, den |-> d]

RECURSIVE GCD(_, _)
GCD(a, b) == IF b = 0 THEN a ELSE GCD(b, a % b)

Abs(n) == IF n < 0 THEN -n ELSE n

\* the quotient n / d (d > 0) as a fraction in lowest terms
Quot(n, d) == LET g == GCD(Abs(n), d) IN Frac(n \div g, d \div g)

\* column labels: text, or (from a spreadsheet header) an int or a float;
\* a float label is whole + tenths / 10
StrLabel(s) == [ty |-> "str", s |-> s, n |-> 0, tenths |-> 0]
IntLabel(n) == [ty |-> "int", s |-> <<>>, n |-> n, tenths |-> 0]
FloatLabel(n, t) == [ty |-> "float", s |-> <<>>, n |-> n, tenths |-> t]

\* cell values: a number, a text, or empty (NaN / None)
NumCell(q) == [ty |-> "num", v |-> q, s |-> <<>>]
TxtCell(s) == [ty |-> "str", v |-> Frac(0, 1), s |-> s]
EmptyCell == [ty |-> "empty", v |-> Frac(0, 1), s |-> <<>>]

\* a table (DataFrame): ordered column labels and ordered rows, every row
\* holding one cell per column
Table(cols, rows) == [columns |-> cols, rows |-> rows]

\* a directory entry name: stem and extension (the part endswith tests)
FileName(stem, ext) == [stem |-> stem, ext |-> ext]

----------------------------------------------------------------------------
(* Text conversions *)

Digits == <<"0", "1", "2", "3", "4", "5", "6", "7", "8", "9">>

IsDigit(c) == \E k \in 1..10 : Digits[k] = c

DigitVal(c) == (CHOOSE k \in 1..10 : Digits[k] = c) - 1

\* str.lower() on one character
LowerChar(c) ==
    CASE c = "A" -> "a" [] c = "B" -> "b" [] c = "C" -> "c" [] c = "D" -> "d"
      [] c = "I" -> "i" [] c = "S" -> "s" [] c = "Y" -> "y"
      [] OTHER -> c

Lower(s) == [k \in 1..Len(s) |-> LowerChar(s[k])]

\* decimal digits of a natural number
RECURSIVE NatStr(_)
NatStr(n) == IF n < 10 THEN <<Digits[n + 1]>>
             ELSE NatStr(n \div 10) \o <<Digits[(n % 10) + 1]>>

\* str(col_name)
Str(label) ==
    CASE label.ty = "str" -> label.s
      [] label.ty = "int" ->
           IF label.n < 0 THEN <<"-">> \o NatStr(-label.n) ELSE NatStr(label.n)
      [] label.ty = "float" -> NatStr(label.n) \o <<".">> \o NatStr(label.tenths)

\* str.strip(): leading and trailing blanks removed
RECURSIVE LStrip(_)
LStrip(s) == IF s # <<>> /\ Head(s) = " " THEN LStrip(Tail(s)) ELSE s

RECURSIVE RStrip(_)
RStrip(s) == IF s # <<>> /\ s[Len(s)] = " "
             THEN RStrip(SubSeq(s, 1, Len(s) - 1)) ELSE s

Strip(s) == RStrip(LStrip(s))

AllDigits(s) == s # <<>> /\ \A k \in 1..Len(s) : IsDigit(s[k])

RECURSIVE DigitsVal(_)
DigitsVal(s) == IF s = <<>> THEN 0
                ELSE 10 * DigitsVal(SubSeq(s, 1, Len(s) - 1)) + DigitVal(s[Len(s)])

\* an integer literal: blanks, an optional sign, then digits only
ParseInt(s) ==
    LET t == Strip(s)
        signed == t # <<>> /\ Head(t) \in {"+", "-"}
        body == IF signed THEN Tail(t) ELSE t
    IN  IF AllDigits(body)
        THEN [ok |-> TRUE,
              val |-> IF signed /\ Head(t) = "-" THEN -DigitsVal(body)
                      ELSE DigitsVal(body)]
        ELSE [ok |-> FALSE, val |-> 0]

----------------------------------------------------------------------------
(* Per-file computation (the body of the try block, lines 42-101) *)

\* calendar.isleap(year)
is_leap_year(year) == year % 4 = 0 /\ (year % 100 # 0 \/ year % 400 = 0)

\* a marker test that forgets .lower()
IsDayMarkerCaseSensitive(col_name) ==
    Str(col_name) = <<"d", "a", "y">> \/ Str(col_name) = <<"d", "a", "y", "s">>

\* the marker test of the first column loop
IsDayMarker(col_name) ==
    LET lower_col_name == Lower(Str(col_name))
    IN  lower_col_name = <<"d", "a", "y">> \/ lower_col_name = <<"d", "a", "y", "s">>

\* the first column loop, from col_index on: stops at the first marker;
\* -1 when the columns are exhausted
RECURSIVE FindMarker(_, _)
FindMarker(columns, col_index) ==
    IF col_index >= Len(columns) THEN -1
    ELSE IF IsDayMarker(columns[col_index + 1]) THEN col_index + 1
    ELSE FindMarker(columns, col_index + 1)

\* the index of the first year column, with the fallback to the 3rd column
start_col_index_for_years(columns) ==
    LET found == FindMarker(columns, 0)
    IN  IF found = -1 THEN 2 ELSE found

\* int(col_name): the year, or the ValueError of a label that is no integer;
\* int() of a float drops the fraction
IntOf(col_name) ==
    CASE col_name.ty = "str" -> ParseInt(col_name.s)
      [] col_name.ty = "int" -> [ok |-> TRUE, val |-> col_name.n]
      [] col_name.ty = "float" -> [ok |-> TRUE, val |-> col_name.n]

\* pd.to_numeric(errors='coerce') on one cell: the number, or NaN.  The cell
\* texts explored carry no fraction or exponent, so a numeric text is an
\* integer literal.
to_numeric(cell) ==
    CASE cell.ty = "num" -> [nan |-> FALSE, v |-> cell.v]
      [] cell.ty = "str" ->
           LET p == ParseInt(cell.s)
           IN  IF p.ok THEN [nan |-> FALSE, v |-> Frac(p.val, 1)]
               ELSE [nan |-> TRUE, v |-> Frac(0, 1)]
      [] cell.ty = "empty" -> [nan |-> TRUE, v |-> Frac(0, 1)]

\* the cells of the column at position k (1-based), top to bottom
ColumnCells(df, k) == [r \in 1..Len(df.rows) |-> df.rows[r][k]]

\* .fillna(0) in place of .dropna(): a cell that is no number counts as 0
RECURSIVE fillna_zero(_)
fillna_zero(cells) ==
    IF cells = <<>> THEN <<>>
    ELSE LET x == to_numeric(Head(cells))
         IN  <<IF x.nan THEN Frac(0, 1) ELSE x.v>> \o fillna_zero(Tail(cells))

\* .dropna(): the numbers that are left, in order
RECURSIVE dropna(_)
dropna(cells) ==
    IF cells = <<>> THEN <<>>
    ELSE LET x == to_numeric(Head(cells))
         IN  IF x.nan THEN dropna(Tail(cells)) ELSE <<x.v>> \o dropna(Tail(cells))

AddFrac(a, b) == Quot(a.num * b.den + b.num * a.den, a.den * b.den)

RECURSIVE SumFrac(_)
SumFrac(vals) == IF vals = <<>> THEN Frac(0, 1)
                 ELSE AddFrac(Head(vals), SumFrac(Tail(vals)))

\* Series.mean() of a non-empty series
mean(column_data) ==
    LET total == SumFrac(column_data)
    IN  Quot(total.num, total.den * Len(column_data))

\* average_row_data[key] = val
DictSet(d, key, val) ==
    [x \in (DOMAIN d) \cup {key} |-> IF x = key THEN val ELSE d[x]]

EmptyDict == [x \in {} |-> EmptyCell]

\* a column pass without the test col_index >= start_col_index_for_years
ColumnStepAnyColumn(df, start, col_index, acc) ==
    LET col_name == df.columns[col_index + 1]
        year == IntOf(col_name)
        column_data == dropna(ColumnCells(df, col_index + 1))
    IN  IF year.ok /\ column_data # <<>>
        THEN [current_file_averages |->
                  Append(acc.current_file_averages,
                         [Year |-> year.val, Average |-> mean(column_data),
                          Leap_Year |-> is_leap_year(year.val)]),
              average_row_data |->
                  DictSet(acc.average_row_data, col_name, NumCell(mean(column_data)))]
        ELSE [current_file_averages |-> acc.current_file_averages,
              average_row_data |->
                  DictSet(acc.average_row_data, col_name, EmptyCell)]

\* one pass of the second column loop (lines 65-96) for the column at
\* col_index: the grown current_file_averages and average_row_data
ColumnStep(df, start, col_index, acc) ==
    LET col_name == df.columns[col_index + 1]
        year == IntOf(col_name)
        column_data == dropna(ColumnCells(df, col_index + 1))
        col_average == mean(column_data)
    IN  IF col_index >= start /\ year.ok /\ column_data # <<>>
        THEN [current_file_averages |->
                  Append(acc.current_file_averages,
                         [Year |-> year.val, Average |-> col_average,
                          Leap_Year |-> is_leap_year(year.val)]),
              average_row_data |->
                  DictSet(acc.average_row_data, col_name, NumCell(col_average))]
        ELSE [current_file_averages |-> acc.current_file_averages,
              average_row_data |->
                  DictSet(acc.average_row_data, col_name, EmptyCell)]

RECURSIVE ColumnLoop(_, _, _, _)
ColumnLoop(df, start, col_index, acc) ==
    IF col_index >= Len(df.columns) THEN acc
    ELSE ColumnLoop(df, start, col_index + 1, ColumnStep(df, start, col_index, acc))

\* lines 42-96
Averages(df) ==
    ColumnLoop(df, start_col_index_for_years(df.columns), 0,
               [current_file_averages |-> <<>>, average_row_data |-> EmptyDict])

\* the average row put first instead of last
df_with_average_first(df) ==
    LET average_row_data == Averages(df).average_row_data
        average_row == [k \in 1..Len(df.columns) |-> average_row_data[df.columns[k]]]
    IN  Table(df.columns, <<average_row>> \o df.rows)

\* lines 100-101: the average row aligned to df.columns, appended to df
df_with_average(df) ==
    LET average_row_data == Averages(df).average_row_data
        average_row == [k \in 1..Len(df.columns) |-> average_row_data[df.columns[k]]]
    IN  Table(df.columns, Append(df.rows, average_row))

\* lines 112-118: the summary entries of one file
SummaryEntries(filename, current_file_averages) ==
    [k \in 1..Len(current_file_averages) |->
        [File |-> filename,
         Year |-> current_file_averages[k].Year,
         Average_Data |-> current_file_averages[k].Average,
         Is_Leap_Year |-> current_file_averages[k].Leap_Year]]

----------------------------------------------------------------------------
(* The explored inputs *)

Ch(str) == StrLabel(str)

\* headers a delimited-text file yields: always text
CsvLabels ==
    { Ch(<<"D", "A", "Y">>), Ch(<<"d", "a", "y", "s">>), Ch(<<"a", "b", "c">>),
      Ch(<<"2", "0">>), Ch(<<"2", "0", ".", "5">>) }

\* headers a spreadsheet yields: text cells as text, numeric cells as int or float
ExcelLabels ==
    { Ch(<<"D", "a", "y", "s">>), Ch(<<"a", "b", "c">>),
      IntLabel(20), IntLabel(19), FloatLabel(20, 5) }

Cells ==
    { NumCell(Frac(1, 1)), TxtCell(<<"3">>), TxtCell(<<"x">>), EmptyCell }

\* sequences of c distinct elements of S
Injective(S, c) ==
    { q \in [1..c -> S] : \A a, b \in 1..c : a # b => q[a] # q[b] }

\* the shapes <<columns, rows>> of the tables explored: at most MaxCols
\* columns and MaxCells cells
Shapes ==
    { sh \in (0..MaxCols) \X (0..MaxCells) :
        sh[1] * sh[2] <= MaxCells /\ (sh[1] = 0 => sh[2] = 0) }

\* a few one-row tables for the runs over several files: one and two year
\* columns with data, a year column without data, no year column
FixtureTables ==
    { Table(<<Ch(<<"D", "A", "Y">>), Ch(<<"2", "0">>)>>,
            <<<<EmptyCell, NumCell(Frac(1, 1))>>>>),
      Table(<<Ch(<<"d", "a", "y", "s">>), Ch(<<"2", "0">>), Ch(<<"1", "9">>)>>,
            <<<<TxtCell(<<"x">>), TxtCell(<<"3">>), NumCell(Frac(1, 1))>>>>),
      Table(<<Ch(<<"D", "A", "Y">>), Ch(<<"2", "0">>)>>,
            <<<<EmptyCell, TxtCell(<<"x">>)>>>>),
      Table(<<Ch(<<"a", "b", "c">>)>>, <<<<NumCell(Frac(1, 1))>>>>) }

\* the entries the input folder may hold
Names ==
    { FileName("a", ".csv"), FileName("b", ".xlsx"), FileName("c", ".xls"),
      FileName("notes", ".txt") }

Listings == UNION { Injective(Names, n) : n \in 0..MaxFiles }

IsExcel(filename) == filename.ext \in {".xlsx", ".xls"}

\* the headers a read of filename may yield
LabelsOf(filename) == IF IsExcel(filename) THEN ExcelLabels ELSE CsvLabels

----------------------------------------------------------------------------
(* State *)

VARIABLES
    pc,                \* "makedirs", "listdir", "loop", "done", "raised"
    raised,            \* the call whose exception left process_excel_files
    output_folders,    \* the output folders os.makedirs has created
    listing,           \* what os.listdir(input_folder) returned
    pos,               \* entries of the listing the for loop is through with
    summary_data,      \* the list of summary entries
    processed_folder,  \* files written to output_processed_folder: name -> table
    summary_folder,    \* the summary files written, in order (each its rows)
    trace              \* per entry done: its name, how it ended and, when it
                       \* was processed, the df read and its first year index

vars == <<pc, raised, output_folders, listing, pos, summary_data, processed_folder,
          summary_folder, trace>>

NoTable == Table(<<>>, <<>>)

Entry(name, result, df, start) ==
    [file |-> name, result |-> result, df |-> df, start |-> start]

Init ==
    /\ pc = "makedirs"
    /\ raised = "none"
    /\ output_folders = {}
    /\ listing = <<>>
    /\ pos = 0
    /\ summary_data = <<>>
    /\ processed_folder = [f \in {} |-> NoTable]
    /\ summary_folder = <<>>
    /\ trace = <<>>

----------------------------------------------------------------------------
(* Steps of process_excel_files *)

\* lines 24-25: both folders created
MakeDirs ==
    /\ pc = "makedirs"
    /\ output_folders' = {"processed", "summary"}
    /\ pc' = "listdir"
    /\ UNCHANGED <<raised, listing, pos, summary_data, processed_folder, summary_folder,
                   trace>>

\* lines 24-25: os.makedirs raises (on the first or on the second folder);
\* nothing catches it
MakeDirsRaises ==
    /\ pc = "makedirs"
    /\ \E made \in {{}, {"processed"}} : output_folders' = made
    /\ pc' = "raised"
    /\ raised' = "os.makedirs"
    /\ UNCHANGED <<listing, pos, summary_data, processed_folder, summary_folder, trace>>

\* line 29: os.listdir returns the entries in some order
ListDir ==
    /\ pc = "listdir"
    /\ \E entries \in Listings : listing' = entries
    /\ pos' = 0
    /\ pc' = "loop"
    /\ UNCHANGED <<raised, output_folders, summary_data, processed_folder, summary_folder, trace>>

\* line 29: os.listdir raises; nothing catches it
ListDirRaises ==
    /\ pc = "listdir"
    /\ pc' = "raised"
    /\ raised' = "os.listdir"
    /\ UNCHANGED <<output_folders, listing, pos, summary_data, processed_folder,
                   summary_folder, trace>>

InLoop == pc = "loop" /\ pos < Len(listing)

filename == listing[pos + 1]

Selected(f) == f.ext \in {".xlsx", ".xls", ".csv"}

\* line 31: the entry has none of the extensions
SkipEntry ==
    /\ InLoop
    /\ ~Selected(filename)
    /\ pos' = pos + 1
    /\ trace' = Append(trace, Entry(filename, "ignored", NoTable, -1))
    /\ UNCHANGED <<pc, raised, output_folders, listing, summary_data, processed_folder,
                   summary_folder>>

\* a read outside the try block: its exception leaves the function
ReadFailsEscapes ==
    /\ InLoop
    /\ Selected(filename)
    /\ pc' = "raised"
    /\ raised' = "pd.read"
    /\ UNCHANGED <<output_folders, listing, pos, summary_data, processed_folder,
                   summary_folder, trace>>

\* lines 33-40, 120-121: read_excel / read_csv raises
ReadFails ==
    /\ InLoop
    /\ Selected(filename)
    /\ pos' = pos + 1
    /\ trace' = Append(trace, Entry(filename, "read_failed", NoTable, -1))
    /\ UNCHANGED <<pc, raised, output_folders, listing, summary_data, processed_folder,
                   summary_folder>>

\* lines 42-101, 120-121: the table is read, something in the processing
\* raises an Exception
ProcessingFault ==
    /\ InLoop
    /\ Selected(filename)
    /\ pos' = pos + 1
    /\ trace' = Append(trace, Entry(filename, "fault", NoTable, -1))
    /\ UNCHANGED <<pc, raised, output_folders, listing, summary_data, processed_folder,
                   summary_folder>>

\* the entries added to summary_data before the write that raises
WriteFailsKeepsEntries ==
    /\ InLoop
    /\ Selected(filename)
    /\ \E df \in FixtureTables :
          summary_data' =
              summary_data \o
              SummaryEntries(filename, Averages(df).current_file_averages)
    /\ pos' = pos + 1
    /\ trace' = Append(trace, Entry(filename, "write_failed", NoTable, -1))
    /\ UNCHANGED <<pc, raised, output_folders, listing, processed_folder,
                   summary_folder>>

\* lines 33-108, 120-121: the table is read and augmented, to_excel / to_csv
\* raises
WriteFails ==
    /\ InLoop
    /\ Selected(filename)
    /\ pos' = pos + 1
    /\ trace' = Append(trace, Entry(filename, "write_failed", NoTable, -1))
    /\ UNCHANGED <<pc, raised, output_folders, listing, summary_data, processed_folder,
                   summary_folder>>

\* the entries of a file put in front of summary_data
ProcessPrepends(df) ==
    /\ processed_folder' =
           DictSet(processed_folder, filename,
                   [format |-> IF IsExcel(filename) THEN "excel" ELSE "csv",
                    table |-> df_with_average(df)])
    /\ summary_data' =
           SummaryEntries(filename, Averages(df).current_file_averages)
           \o summary_data
    /\ trace' = Append(trace, Entry(filename, "processed", df,
                                    start_col_index_for_years(df.columns)))
    /\ pos' = pos + 1
    /\ UNCHANGED <<pc, raised, output_folders, listing, summary_folder>>

\* lines 42-118 once df is read: df is augmented and written, its entries
\* are added to summary_data
Process(df) ==
    /\ processed_folder' =
           DictSet(processed_folder, filename,
                   [format |-> IF IsExcel(filename) THEN "excel" ELSE "csv",
                    table |-> df_with_average(df)])
    /\ summary_data' =
           summary_data \o
           SummaryEntries(filename, Averages(df).current_file_averages)
    /\ trace' = Append(trace, Entry(filename, "processed", df,
                                    start_col_index_for_years(df.columns)))
    /\ pos' = pos + 1
    /\ UNCHANGED <<pc, raised, output_folders, listing, summary_folder>>

\* lines 33-118, the only selected file of the folder: any table of the
\* explored shapes is read
ProcessFile ==
    /\ InLoop
    /\ Selected(filename)
    /\ Len(listing) = 1
    /\ \E sh \in Shapes :
         \E cols \in Injective(LabelsOf(filename), sh[1]) :
           \E rows \in [1..sh[2] -> [1..sh[1] -> Cells]] :
              Process(Table(cols, rows))

\* lines 33-118, one file of several: a fixture table is read
ProcessFileOfSeveral ==
    /\ InLoop
    /\ Selected(filename)
    /\ Len(listing) > 1
    /\ \E df \in FixtureTables : Process(df)

AfterLoop == pc = "loop" /\ pos = Len(listing)

\* lines 124-128: summary_data is not empty and is written
WriteSummary ==
    /\ AfterLoop
    /\ summary_data # <<>>
    /\ summary_folder' = Append(summary_folder, summary_data)
    /\ pc' = "done"
    /\ UNCHANGED <<raised, output_folders, listing, pos, summary_data, processed_folder, trace>>

\* lines 124-127: summary_data is not empty and to_csv raises; nothing
\* catches it
WriteSummaryRaises ==
    /\ AfterLoop
    /\ summary_data # <<>>
    /\ pc' = "raised"
    /\ raised' = "summary_df.to_csv"
    /\ UNCHANGED <<output_folders, listing, pos, summary_data, processed_folder,
                   summary_folder, trace>>

\* a summary file written although summary_data is empty
NoSummaryWritesFile ==
    /\ AfterLoop
    /\ summary_data = <<>>
    /\ summary_folder' = Append(summary_folder, summary_data)
    /\ pc' = "done"
    /\ UNCHANGED <<raised, output_folders, listing, pos, summary_data, processed_folder,
                   trace>>

\* lines 129-130: nothing to write
NoSummary ==
    /\ AfterLoop
    /\ summary_data = <<>>
    /\ pc' = "done"
    /\ UNCHANGED <<raised, output_folders, listing, pos, summary_data, processed_folder,
                   summary_folder, trace>>

Next ==
    \/ MakeDirs
    \/ MakeDirsRaises
    \/ ListDir
    \/ ListDirRaises
    \/ SkipEntry
    \/ ReadFails
    \/ ProcessingFault
    \/ WriteFails
    \/ ProcessFile
    \/ ProcessFileOfSeveral
    \/ WriteSummary
    \/ WriteSummaryRaises
    \/ NoSummary

Spec == Init /\ [][Next]_vars

----------------------------------------------------------------------------
(* Properties *)

\* positions of the trace whose file was read, augmented and written
Processed == { k \in 1..Len(trace) : trace[k].result = "processed" }

\* positions of the trace whose file failed
Failed ==
    { k \in 1..Len(trace) : trace[k].result \in {"read_failed", "fault", "write_failed"} }

\* the entries of summary_data tagged with file f, in order
EntriesOf(f) == LET OfFile(e) == e.File = f IN SelectSeq(summary_data, OfFile)

Written(f) == f \in DOMAIN processed_folder

\* the table written for the file at position k, and its last row
Out(k) == processed_folder[trace[k].file].table

SummaryRow(k) == Out(k).rows[Len(Out(k).rows)]

\* the column indices (from 0) from the first year index on
YearIndices(k) == { i \in 0..(Len(trace[k].df.columns) - 1) : i >= trace[k].start }

\* the column indices (from 0) whose SummaryRow cell holds a number
Averaged(k) ==
    { i \in 0..(Len(trace[k].df.columns) - 1) : SummaryRow(k)[i + 1].ty = "num" }

\* the elements of a set of integers in increasing order
SortedSeq(S) ==
    CHOOSE q \in [1..Cardinality(S) -> S] :
        \A a, b \in 1..Cardinality(S) : a < b => q[a] < q[b]

\* an integer label: an integer literal, an int, or a float without fraction
IsIntegerLabel(label) ==
    CASE label.ty = "str" -> ParseInt(label.s).ok
      [] label.ty = "int" -> TRUE
      [] label.ty = "float" -> label.tenths = 0

\* the rows whose cell in column position c (from 1) coerces to a number
NumericRows(df, c) == { r \in 1..Len(df.rows) : ~to_numeric(df.rows[r][c]).nan }

\* the sum of the cells of column position c over the rows S; the explored
\* cells hold whole numbers
RECURSIVE SumRows(_, _, _)
SumRows(df, c, S) ==
    IF S = {} THEN 0
    ELSE LET r == CHOOSE x \in S : TRUE
         IN  to_numeric(df.rows[r][c]).v.num + SumRows(df, c, S \ {r})

DayMarkers(columns) ==
    { i \in 0..(Len(columns) - 1) :
        Lower(Str(columns[i + 1])) \in {<<"d", "a", "y">>, <<"d", "a", "y", "s">>} }

----------------------------------------------------------------------------
C2_NoExceptionEscapes == pc # "raised"

\* C2 amended: a failure of reading, processing or writing one file never
\* leaves the function, the loop goes on to the next entry; an exception
\* leaves the function only from os.makedirs, os.listdir or the write of the
\* summary file.
C2_PerFileFailuresCaught ==
    [][ /\ InLoop => (pc' = "loop" /\ pos' = pos + 1)
        /\ pc' = "raised" =>
              /\ raised' \in {"os.makedirs", "os.listdir", "summary_df.to_csv"}
              /\ ~InLoop ]_vars

\* a finished run in which one file failed to read and another failed to be
\* written
C2_Witness ==
    /\ pc = "done"
    /\ \E j, k \in Failed :
          trace[j].result = "read_failed" /\ trace[k].result = "write_failed"

\* C3: at most one summary file is written; it is written only when the loop
\* is through with every entry, it holds summary_data, and a run that ends
\* has written it exactly when summary_data is not empty; with summary_data
\* empty after the loop nothing raises.
C3_SummaryOnceAtEnd ==
    /\ Len(summary_folder) <= 1
    /\ summary_folder # <<>> =>
          /\ pc = "done"
          /\ pos = Len(listing)
          /\ Len(trace) = Len(listing)
          /\ summary_folder[1] = summary_data
    /\ pc = "done" => (summary_folder # <<>> <=> summary_data # <<>>)
    /\ raised = "summary_df.to_csv" => summary_data # <<>>

\* a finished run over two entries that wrote the summary file
C3_Witness ==
    /\ pc = "done"
    /\ Len(listing) = 2
    /\ Len(summary_folder) = 1

\* C4: the first year index of a processed table is the index of its first
\* day/days label (compared in lower case) plus 1, and 2 when it has none;
\* with no such label and fewer than 3 columns the index is not below the
\* column count and the table yields no average and no entry.
C4_Classifier ==
    \A k \in Processed :
        LET columns == trace[k].df.columns
            M == DayMarkers(columns)
        IN  /\ M # {} => trace[k].start = (CHOOSE i \in M : \A j \in M : i <= j) + 1
            /\ M = {} => trace[k].start = 2
            /\ (M = {} /\ Len(columns) < 3) =>
                  /\ trace[k].start >= Len(columns)
                  /\ Averaged(k) = {}
                  /\ EntriesOf(trace[k].file) = <<>>

\* a processed table with two marker labels, the first of them in upper case
\* and not in the first column
C4_Witness ==
    \E k \in Processed :
        LET columns == trace[k].df.columns
        IN  /\ Cardinality(DayMarkers(columns)) = 2
            /\ trace[k].start = 2
            /\ Str(columns[2]) = <<"D", "A", "Y">>

\* C5 as claimed: a column from the first year index on has an average in
\* the SummaryRow and an entry exactly when its label is an integer and it
\* holds at least one number; every other such column has an empty cell.
C5_RecordIffIntegerLabelAndData ==
    \A k \in Processed :
        LET df == trace[k].df
            Good == { i \in YearIndices(k) :
                        IsIntegerLabel(df.columns[i + 1]) /\ NumericRows(df, i + 1) # {} }
        IN  /\ \A i \in YearIndices(k) :
                  IF i \in Good THEN SummaryRow(k)[i + 1].ty = "num"
                  ELSE SummaryRow(k)[i + 1] = EmptyCell
            /\ Len(EntriesOf(trace[k].file)) = Cardinality(Good)

\* C6: in a processed table every column before the first year index has an
\* empty SummaryRow cell, and the file has as many entries as averages.
C6_DescriptiveNeverAveraged ==
    \A k \in Processed :
        /\ \A i \in 0..(Len(trace[k].df.columns) - 1) :
              i < trace[k].start => SummaryRow(k)[i + 1] = EmptyCell
        /\ Averaged(k) \subseteq YearIndices(k)
        /\ Len(EntriesOf(trace[k].file)) = Cardinality(Averaged(k))

\* a processed table with a column before the first year index whose label
\* is an integer and whose cells are all numbers
C6_Witness ==
    \E k \in Processed :
        LET df == trace[k].df
        IN  \E i \in 0..(Len(df.columns) - 1) :
              /\ i < trace[k].start
              /\ IntOf(df.columns[i + 1]).ok
              /\ df.rows # <<>>
              /\ NumericRows(df, i + 1) = 1..Len(df.rows)

\* C7: the table written for a processed file has the labels of the table
\* read, in order, its rows as first rows, in order and unchanged, and one
\* more row, the last, with one cell per column.
C7_OneRowAppended ==
    \A k \in Processed :
        LET df == trace[k].df
        IN  /\ Out(k).columns = df.columns
            /\ Len(Out(k).rows) = Len(df.rows) + 1
            /\ SubSeq(Out(k).rows, 1, Len(df.rows)) = df.rows
            /\ Len(SummaryRow(k)) = Len(df.columns)

\* a processed table of two columns and two rows with an average in its
\* SummaryRow
C7_Witness ==
    \E k \in Processed :
        /\ Len(trace[k].df.columns) = 2
        /\ Len(trace[k].df.rows) = 2
        /\ Averaged(k) # {}

\* C8 as claimed: a column from the first year index on whose label is not
\* an integer (a text that is no integer literal, a number with a fraction)
\* has an empty SummaryRow cell and adds no entry.
C8_NonIntegerLabelSkipped ==
    \A k \in Processed :
        LET df == trace[k].df
        IN  /\ \A i \in YearIndices(k) :
                  ~IsIntegerLabel(df.columns[i + 1]) => SummaryRow(k)[i + 1] = EmptyCell
            /\ Len(EntriesOf(trace[k].file)) <=
                  Cardinality({ i \in YearIndices(k) : IsIntegerLabel(df.columns[i + 1]) })

\* C9: the average of a year column with an integer label and at least one
\* number, in the SummaryRow and in the entry of the column, is the sum of
\* the cells that coerce to a number divided by their count.
C9_AverageOfNumericCells ==
    \A k \in Processed :
        LET df == trace[k].df
            cols == SortedSeq(Averaged(k))
            entries == EntriesOf(trace[k].file)
            IsMean(q, c) ==
                q.num * Cardinality(NumericRows(df, c)) =
                    SumRows(df, c, NumericRows(df, c)) * q.den
        IN  /\ \A i \in YearIndices(k) :
                  (IsIntegerLabel(df.columns[i + 1]) /\ NumericRows(df, i + 1) # {}) =>
                      /\ i \in Averaged(k)
                      /\ IsMean(SummaryRow(k)[i + 1].v, i + 1)
            /\ Len(entries) = Len(cols)
            /\ \A j \in 1..Len(cols) :
                  /\ entries[j].Average_Data = SummaryRow(k)[cols[j] + 1].v
                  /\ IsMean(entries[j].Average_Data, cols[j] + 1)

\* a processed table with a year column of integer label holding a number
\* and a cell that is no number
C9_Witness ==
    \E k \in Processed :
        LET df == trace[k].df
        IN  \E i \in YearIndices(k) :
              /\ IsIntegerLabel(df.columns[i + 1])
              /\ NumericRows(df, i + 1) # {}
              /\ NumericRows(df, i + 1) # 1..Len(df.rows)
              /\ SummaryRow(k)[i + 1].ty = "num"

\* the position of a file in the listing
ListingPos(f) == CHOOSE k \in 1..Len(listing) : listing[k] = f

\* C10: summary_data only grows at its end; its entries are ordered by the
\* position of their file in the listing, the entries of one file are those
\* of its averaged columns in increasing column index, each tagged with the
\* file; the summary file holds exactly the entries of summary_data, in order.
C10_AppendOnlyOrdered ==
    /\ [](/\ \A a, b \in 1..Len(summary_data) :
               a < b => ListingPos(summary_data[a].File) <= ListingPos(summary_data[b].File)
          /\ \A k \in Processed :
               LET df == trace[k].df
                   cols == SortedSeq(Averaged(k))
               IN  EntriesOf(trace[k].file) =
                       [j \in 1..Len(cols) |->
                           [File |-> trace[k].file,
                            Year |-> IntOf(df.columns[cols[j] + 1]).val,
                            Average_Data |-> SummaryRow(k)[cols[j] + 1].v,
                            Is_Leap_Year |-> is_leap_year(IntOf(df.columns[cols[j] + 1]).val)]]
          /\ summary_folder # <<>> => summary_folder[1] = summary_data)
    /\ [][ /\ Len(summary_data') >= Len(summary_data)
           /\ SubSeq(summary_data', 1, Len(summary_data)) = summary_data ]_vars

\* a finished run that wrote a summary of the entries of two files, one of
\* them with two entries
C10_Witness ==
    /\ pc = "done"
    /\ summary_folder # <<>>
    /\ Len(summary_data) >= 3
    /\ \E a, b \in 1..Len(summary_data) : summary_data[a].File # summary_data[b].File

====
